---- MODULE Spec2Model ----
(***************************************************************************)
(* Model of the puzzle solvers of aoc2023: the Digit Extractor (day1), the  *)
(* Cube-Game Parser (day2), the Schematic Scanner (day3) and the           *)
(* Scratchcard Matcher (day4).  Each solver has its own specification;     *)
(* the variables of the other solvers stay at their idle values in it.     *)
(*                                                                         *)
(* A text is a sequence of one-character strings, "\n" separating lines,   *)
(* as the solvers receive it.  Rows and columns are 0-indexed as in the    *)
(* source (enumerate()), so the character of row r and column x of a text  *)
(* is Lines(text)[r + 1][x + 1].                                           *)
(***************************************************************************)
EXTENDS Integers, Sequences, FiniteSets, TLC

\* ------------------------------------------------------------------ bounds

\* Longest schematic text, in characters, line breaks included.
MaxLen == 6

\* Most lines of a scratchcard text.
MaxCards == 3

\* Greatest card id of a line.
MaxId == 3

\* Greatest number printed on a card.
MaxNum == 2

\* Most numbers in the list of numbers one has on a card.
MaxHave == 2

\* ------------------------------------------------------------- characters

NL == "\n"

\* The characters a schematic row is drawn from: two digits, the period, the
\* gear symbol and one other symbol.
SchematicChars == {"1", "2", ".", "*", "#"}

AsciiDigits == {"0", "1", "2", "3", "4", "5", "6", "7", "8", "9"}

is_ascii_digit(c) == c \in AsciiDigits

is_a_symbol(c) == ~(is_ascii_digit(c) \/ c = ".")

DigitValue(c) ==
    CASE c = "0" -> 0 [] c = "1" -> 1 [] c = "2" -> 2 [] c = "3" -> 3
      [] c = "4" -> 4 [] c = "5" -> 5 [] c = "6" -> 6 [] c = "7" -> 7
      [] c = "8" -> 8 [] c = "9" -> 9

\* str::parse::<u64> of a string of digits: its decimal value.  (A run long
\* enough to overflow u64 is beyond MaxLen.)
RECURSIVE ParseNumber(_)
ParseNumber(s) ==
    IF s = <<>> THEN 0
    ELSE 10 * ParseNumber(SubSeq(s, 1, Len(s) - 1)) + DigitValue(s[Len(s)])

saturating_sub(n, k) == IF n >= k THEN n - k ELSE 0

\* str::lines: the text split at every "\n"; a final line ending adds no
\* empty last line, and the empty text has no line.
RECURSIVE SplitLines(_, _, _)
SplitLines(t, k, cur) ==
    IF k > Len(t) THEN (IF cur = <<>> THEN <<>> ELSE <<cur>>)
    ELSE IF t[k] = NL THEN <<cur>> \o SplitLines(t, k + 1, <<>>)
    ELSE SplitLines(t, k + 1, Append(cur, t[k]))

Lines(t) == SplitLines(t, 1, <<>>)

\* --------------------------------------------------------- day3: the scanner

\* HashMap::insert of the same value at every key of `cells`.
InsertAll(map, cells, v) ==
    [k \in DOMAIN map \cup cells |-> IF k \in cells THEN v ELSE map[k]]

\* update_positions with a neighbourhood that misses the column to the left.
update_positions_no_left(row, i, c, valid_positions) ==
    InsertAll(valid_positions,
              {<<x, y>> : x \in i..(i + 1),
                          y \in saturating_sub(row, 1)..(row + 1)},
              [row |-> row, offset |-> i, symbol |-> c])

update_positions(row, i, c, valid_positions) ==
    InsertAll(valid_positions,
              {<<x, y>> : x \in saturating_sub(i, 1)..(i + 1),
                          y \in saturating_sub(row, 1)..(row + 1)},
              [row |-> row, offset |-> i, symbol |-> c])

\* The locals of parse before its loop.
ParseStart ==
    [mode |-> "Scanning", begin |-> 0, current_numeric_string |-> <<>>,
     part_numbers |-> <<>>, valid_positions |-> <<>>]

\* The PartNumber pushed and the mode reset, the buffer left as it is.
finalize_keeping_the_buffer(st, row, end) ==
    [st EXCEPT !.mode = "Scanning",
               !.part_numbers = Append(@, [row |-> row, begin |-> st.begin,
                                           end |-> end,
                                           number |-> ParseNumber(st.current_numeric_string)])]

finalize_part_number(st, row, end) ==
    [st EXCEPT !.mode = "Scanning",
               !.part_numbers = Append(@, [row |-> row, begin |-> st.begin,
                                           end |-> end,
                                           number |-> ParseNumber(st.current_numeric_string)]),
               !.current_numeric_string = <<>>]

\* One iteration of the loop of parse: the character c at column i of the
\* row, `last` telling whether chars.peek() is None.
ParseChar(st, row, i, c, last) ==
    CASE is_ascii_digit(c) /\ ~is_a_symbol(c) /\ st.mode = "Scanning" ->
            [st EXCEPT !.mode = "ParsingNumber", !.begin = i,
                       !.current_numeric_string = Append(@, c)]
      [] ~is_ascii_digit(c) /\ is_a_symbol(c) /\ st.mode = "Scanning" ->
            [st EXCEPT !.valid_positions = update_positions(row, i, c, @)]
      [] ~is_ascii_digit(c) /\ ~is_a_symbol(c) /\ st.mode = "Scanning" ->
            st
      [] is_ascii_digit(c) /\ ~is_a_symbol(c) /\ st.mode = "ParsingNumber" ->
            LET pushed == [st EXCEPT !.current_numeric_string = Append(@, c)]
            IN  IF last THEN finalize_part_number(pushed, row, i) ELSE pushed
      [] ~is_ascii_digit(c) /\ is_a_symbol(c) /\ st.mode = "ParsingNumber" ->
            finalize_part_number(
                [st EXCEPT !.valid_positions = update_positions(row, i, c, @)],
                row, i - 1)
      [] ~is_ascii_digit(c) /\ ~is_a_symbol(c) /\ st.mode = "ParsingNumber" ->
            finalize_part_number(st, row, i - 1)

\* The loop of parse from column i on.
RECURSIVE ParseFrom(_, _, _, _)
ParseFrom(st, line, row, i) ==
    IF i >= Len(line) THEN st
    ELSE ParseFrom(ParseChar(st, row, i, line[i + 1], i + 1 = Len(line)),
                   line, row, i + 1)

\* parse(text, row): the part numbers and the lookup table of one row.
parse(line, row) ==
    LET st == ParseFrom(ParseStart, line, row, 0)
    IN  [part_numbers |-> st.part_numbers, valid_positions |-> st.valid_positions]

\* The drain of a row's table into the merged one, keeping what is there.
MergeKeepOld(valid_positions, new_valid_positions) ==
    [k \in DOMAIN valid_positions \cup DOMAIN new_valid_positions |->
        IF k \in DOMAIN valid_positions THEN valid_positions[k]
        ELSE new_valid_positions[k]]

\* new_valid_positions.drain().for_each(insert): the row's entries replace
\* the merged ones.
MergeRow(valid_positions, new_valid_positions) ==
    [k \in DOMAIN valid_positions \cup DOMAIN new_valid_positions |->
        IF k \in DOMAIN new_valid_positions THEN new_valid_positions[k]
        ELSE valid_positions[k]]

\* The loop over text.lines().enumerate() of both solvers, from row i on.
RECURSIVE ScanRows(_, _, _)
ScanRows(acc, rows, i) ==
    IF i >= Len(rows) THEN acc
    ELSE LET p == parse(rows[i + 1], i)
         IN  ScanRows([part_numbers |-> acc.part_numbers \o p.part_numbers,
                       valid_positions |-> MergeRow(acc.valid_positions,
                                                    p.valid_positions)],
                      rows, i + 1)

ScanText(t) ==
    ScanRows([part_numbers |-> <<>>, valid_positions |-> <<>>], Lines(t), 0)

\* The filter of solve_part_one: some column of the number is a key.
ValidPart(pn, valid_positions) ==
    \E x \in pn.begin..pn.end : <<x, pn.row>> \in DOMAIN valid_positions

\* The sum of the numbers of the valid parts, in the order of the vector.
RECURSIVE SumValidParts(_, _)
SumValidParts(part_numbers, valid_positions) ==
    IF part_numbers = <<>> THEN 0
    ELSE (IF ValidPart(Head(part_numbers), valid_positions)
          THEN Head(part_numbers).number ELSE 0)
         + SumValidParts(Tail(part_numbers), valid_positions)

NoGear == [row |-> -1, offset |-> -1, symbol |-> "."]

\* The column loop of solve_part_two that stops at the first entry of any
\* symbol instead of skipping the entries that are no '*'.
RECURSIVE GearOfFirstEntry(_, _, _)
GearOfFirstEntry(pn, valid_positions, x) ==
    IF x > pn.end THEN NoGear
    ELSE IF <<x, pn.row>> \in DOMAIN valid_positions
         THEN (IF valid_positions[<<x, pn.row>>].symbol # "*" THEN NoGear
               ELSE valid_positions[<<x, pn.row>>])
         ELSE GearOfFirstEntry(pn, valid_positions, x + 1)

\* The column loop of solve_part_two for one part number, from column x on:
\* the entry the number is pushed to, NoGear when the loop ends without one.
RECURSIVE GearOf(_, _, _)
GearOf(pn, valid_positions, x) ==
    IF x > pn.end THEN NoGear
    ELSE IF <<x, pn.row>> \in DOMAIN valid_positions
         THEN (IF valid_positions[<<x, pn.row>>].symbol # "*"
               THEN GearOf(pn, valid_positions, x + 1)
               ELSE valid_positions[<<x, pn.row>>])
         ELSE GearOf(pn, valid_positions, x + 1)

\* part_numbers.iter().for_each(..): the table from a symbol to the numbers
\* pushed to it, in the order of the vector.
RECURSIVE GroupGears(_, _, _)
GroupGears(table, part_numbers, valid_positions) ==
    IF part_numbers = <<>> THEN table
    ELSE LET pn == Head(part_numbers)
             g == GearOf(pn, valid_positions, pn.begin)
             next == IF g = NoGear THEN table
                     ELSE IF g \in DOMAIN table
                          THEN [table EXCEPT ![g] = Append(@, pn.number)]
                          ELSE [k \in DOMAIN table \cup {g} |->
                                   IF k = g THEN <<pn.number>> ELSE table[k]]
         IN  GroupGears(next, Tail(part_numbers), valid_positions)

RECURSIVE Product(_)
Product(v) == IF v = <<>> THEN 1 ELSE Head(v) * Product(Tail(v))

\* filter(len == 2), product and sum over the entries `keys` of the table.
RECURSIVE SumGearRatios(_, _)
SumGearRatios(table, keys) ==
    IF keys = {} THEN 0
    ELSE LET k == CHOOSE s \in keys : TRUE
         IN  (IF Len(table[k]) = 2 THEN Product(table[k]) ELSE 0)
             + SumGearRatios(table, keys \ {k})

\* ------------------------------------------------- day4: the scratchcards

\* The count that takes each number one has once, however often it is listed.
NumberOfDistinctMatches(winning_numbers, our_numbers) ==
    Cardinality({our_numbers[i] : i \in DOMAIN our_numbers} \cap winning_numbers)

\* our_numbers.iter().filter(|n| winning_numbers.contains(n)).count()
NumberOfMatches(winning_numbers, our_numbers) ==
    Len(SelectSeq(our_numbers, LAMBDA n : n \in winning_numbers))

\* v << n: v doubled n times (n stays far below the 64 bits of the u64).
RECURSIVE ShiftLeft(_, _)
ShiftLeft(v, n) == IF n = 0 THEN v ELSE ShiftLeft(2 * v, n - 1)

\* The points of a card shifted by the matches, not by one less.
CardPointsOneTooFar(number_of_matches) ==
    IF number_of_matches > 0 THEN ShiftLeft(1, number_of_matches) ELSE 0

\* The points solve_part_one adds for a card.
CardPoints(number_of_matches) ==
    IF number_of_matches > 0 THEN ShiftLeft(1, number_of_matches - 1) ELSE 0

\* The entry of a card whose line is read, when a cascade made the entry
\* before, left as the cascade made it.
BumpOnlyVacant(card_counts, card_number) ==
    IF card_number \in DOMAIN card_counts
    THEN card_counts
    ELSE [k \in DOMAIN card_counts \cup {card_number} |->
             IF k = card_number THEN 1 ELSE card_counts[k]]

\* match card_counts.entry(card_number): one more instance, the original.
BumpCard(card_counts, card_number) ==
    IF card_number \in DOMAIN card_counts
    THEN [card_counts EXCEPT ![card_number] = @ + 1]
    ELSE [k \in DOMAIN card_counts \cup {card_number} |->
             IF k = card_number THEN 1 ELSE card_counts[k]]

\* for i in 1..=number_of_matches, from i on: card_number + i gets the
\* current count of card_number.
RECURSIVE Cascade(_, _, _, _)
Cascade(card_counts, card_number, number_of_matches, i) ==
    IF i > number_of_matches THEN card_counts
    ELSE LET card_to_increment == card_number + i
             value == IF card_number \in DOMAIN card_counts
                      THEN card_counts[card_number] ELSE 1
             next == IF card_to_increment \in DOMAIN card_counts
                     THEN [card_counts EXCEPT ![card_to_increment] = @ + value]
                     ELSE [k \in DOMAIN card_counts \cup {card_to_increment} |->
                              IF k = card_to_increment THEN value ELSE card_counts[k]]
         IN  Cascade(next, card_number, number_of_matches, i + 1)

\* The entries summed at the last line without the filter on the key.
AllKeys(card_counts, card_number) == DOMAIN card_counts

\* filter(|(k, _)| **k <= card_number): the keys of the entries summed at
\* the last line.
CountedKeys(card_counts, card_number) ==
    {k \in DOMAIN card_counts : k <= card_number}

RECURSIVE SumCounts(_, _)
SumCounts(card_counts, keys) ==
    IF keys = {} THEN 0
    ELSE LET k == CHOOSE j \in keys : TRUE
         IN  card_counts[k] + SumCounts(card_counts, keys \ {k})

\* ------------------------------------------------------------------- state

VARIABLES
    pc,                        \* where the solver is, or the solver that has returned
    answer,                    \* the value returned
    \* day3
    text,                      \* the schematic handed to the solver
    part_numbers,              \* the vector of solve_part_one / solve_part_two
    valid_positions,           \* the merged lookup table
    unvalidated_gear_ratios,   \* the table of solve_part_two
    \* day4
    total_points,              \* solve_part_one
    card_counts,               \* solve_part_two: card id -> instances
    sum,                       \* solve_part_two
    card_number,               \* the id of the line read last
    winning_numbers,           \* the winning set of the line read last
    our_numbers,               \* the numbers one has of the line read last
    number_of_matches,         \* of the line read last
    lines_read,                \* how many lines of the text were read
    matches_read,              \* number_of_matches -> how many lines read have it
    ids_read,                  \* card id -> how many lines read carry it
    received,                  \* card id -> the increments cascades gave it
    \* day2
    games,                     \* the games the cube text was written from
    cube_text,                 \* the text handed to the solver
    parsed_games,              \* data of each line read, in order
    counts_seen,               \* counts of each line read, in order
    game_ids,                  \* the vector of solve_part_one
    game_powers,               \* the vector of solve_part_two
    line_shape,                \* how the line handed to parse_line was written
    line,                      \* the line handed to parse_line
    parsed_line,               \* what parse_line returned
    \* day1
    calibration,               \* the text handed to the solver
    values_read,               \* the value of each line read, in order
    \* day3, parse character by character
    row_text,                  \* the row handed to parse
    row,                       \* its row index
    column,                    \* the column of the next character
    scan,                      \* mode, begin, buffer and vectors of parse
    \* the line loops and their errors
    solver,                    \* the solver that is reading lines
    line_read,                 \* the line read last
    checked,                   \* how many lines were read
    slipped                    \* a line read is not of the puzzle's grammar

day3vars == <<text, part_numbers, valid_positions, unvalidated_gear_ratios>>

day4vars == <<total_points, card_counts, sum, card_number, winning_numbers,
              our_numbers, number_of_matches, lines_read, matches_read,
              ids_read, received>>

day2vars == <<games, cube_text, parsed_games, counts_seen, game_ids, game_powers,
              line_shape, line, parsed_line>>

day1vars == <<calibration, values_read>>

scanvars == <<row_text, row, column, scan>>

loopvars == <<solver, line_read, checked, slipped>>

latervars == <<day2vars, day1vars, scanvars, loopvars>>

vars == <<pc, answer, day3vars, day4vars, latervars>>

Day3Idle ==
    /\ text = <<>>
    /\ part_numbers = <<>>
    /\ valid_positions = <<>>
    /\ unvalidated_gear_ratios = <<>>

Day4Idle ==
    /\ total_points = 0
    /\ card_counts = <<>>
    /\ sum = 0
    /\ card_number = 0
    /\ winning_numbers = {}
    /\ our_numbers = <<>>
    /\ number_of_matches = 0
    /\ lines_read = 0
    /\ matches_read = <<>>
    /\ ids_read = <<>>
    /\ received = <<>>

Day2Idle ==
    /\ games = <<>>
    /\ cube_text = <<>>
    /\ parsed_games = <<>>
    /\ counts_seen = <<>>
    /\ game_ids = <<>>
    /\ game_powers = <<>>
    /\ line_shape = <<>>
    /\ line = <<>>
    /\ parsed_line = <<>>

Day1Idle ==
    /\ calibration = <<>>
    /\ values_read = <<>>

ScanIdle ==
    /\ row_text = <<>>
    /\ row = 0
    /\ column = 0
    /\ scan = <<>>

LoopIdle ==
    /\ solver = ""
    /\ line_read = <<>>
    /\ checked = 0
    /\ slipped = FALSE

LaterIdle == Day2Idle /\ Day1Idle /\ ScanIdle /\ LoopIdle

\* ------------------------------------------------------ day3: the solvers

Texts == UNION {[1..n -> SchematicChars \cup {NL}] : n \in 0..MaxLen}

InitSchematic ==
    /\ text \in Texts
    /\ pc = "day3_start"
    /\ part_numbers = <<>>
    /\ valid_positions = <<>>
    /\ unvalidated_gear_ratios = <<>>
    /\ answer = 0
    /\ Day4Idle
    /\ LaterIdle

SolvePartOne ==
    /\ pc = "day3_start"
    /\ LET scanned == ScanText(text)
       IN  /\ part_numbers' = scanned.part_numbers
           /\ valid_positions' = scanned.valid_positions
           /\ answer' = SumValidParts(scanned.part_numbers, scanned.valid_positions)
    /\ pc' = "day3_part_one"
    /\ UNCHANGED <<text, unvalidated_gear_ratios, day4vars, latervars>>

SolvePartTwo ==
    /\ pc = "day3_start"
    /\ LET scanned == ScanText(text)
           table == GroupGears(<<>>, scanned.part_numbers, scanned.valid_positions)
       IN  /\ part_numbers' = scanned.part_numbers
           /\ valid_positions' = scanned.valid_positions
           /\ unvalidated_gear_ratios' = table
           /\ answer' = SumGearRatios(table, DOMAIN table)
    /\ pc' = "day3_part_two"
    /\ UNCHANGED <<text, day4vars, latervars>>

NextSchematic == SolvePartOne \/ SolvePartTwo

SpecSchematic == InitSchematic /\ [][NextSchematic]_vars

\* ------------------------------------------------------ day4: the solvers

\* A line of a scratchcard text is read as its fields: the card id, the
\* winning numbers and the numbers one has.  A line that lacks ':' or '|', or
\* holds a field that is no number, is `malformed`.
CardIds == 1..MaxId

Numbers == 1..MaxNum

HaveLists == UNION {[1..n -> Numbers] : n \in 0..MaxHave}

InitCards ==
    /\ pc = "day4_start"
    /\ answer = 0
    /\ Day3Idle
    /\ Day4Idle
    /\ LaterIdle

\* One iteration of `for line in text.lines()` of solve_part_one.
PartOneLine ==
    /\ pc \in {"day4_start", "day4_part_one_loop"}
    /\ lines_read < MaxCards
    /\ \E winning \in SUBSET Numbers, ours \in HaveLists :
          LET matches == NumberOfMatches(winning, ours)
          IN  /\ winning_numbers' = winning
              /\ our_numbers' = ours
              /\ number_of_matches' = matches
              /\ total_points' = total_points + CardPoints(matches)
              /\ matches_read' = [m \in DOMAIN matches_read \cup {matches} |->
                                      (IF m \in DOMAIN matches_read THEN matches_read[m] ELSE 0)
                                      + (IF m = matches THEN 1 ELSE 0)]
    /\ lines_read' = lines_read + 1
    /\ pc' = "day4_part_one_loop"
    /\ UNCHANGED <<answer, day3vars, latervars, card_counts, sum, card_number, ids_read, received>>

\* A line of solve_part_one that fails one of its `?`.
PartOneMalformedLine ==
    /\ pc \in {"day4_start", "day4_part_one_loop"}
    /\ lines_read < MaxCards
    /\ pc' = "day4_error"
    /\ UNCHANGED <<answer, day3vars, day4vars, latervars>>

\* The text has no further line: Ok(total_points).
PartOneReturn ==
    /\ pc \in {"day4_start", "day4_part_one_loop"}
    /\ answer' = total_points
    /\ pc' = "day4_part_one"
    /\ UNCHANGED <<day3vars, day4vars, latervars>>

AddReceived(rcv, keys, value) ==
    [k \in DOMAIN rcv \cup keys |->
        (IF k \in DOMAIN rcv THEN rcv[k] ELSE 0) + (IF k \in keys THEN value ELSE 0)]

\* One iteration of `while let Some(line) = lines.next()` of solve_part_two;
\* `last` tells whether lines.peek() is None after it.
PartTwoLine ==
    /\ pc \in {"day4_start", "day4_part_two_loop"}
    /\ lines_read < MaxCards
    /\ \E id \in CardIds, matches \in 0..MaxHave, last \in BOOLEAN :
          /\ \E winning \in SUBSET Numbers, ours \in HaveLists :
                NumberOfMatches(winning, ours) = matches
          /\ LET bumped == BumpCard(card_counts, id)
                 counts == Cascade(bumped, id, matches, 1)
             IN  /\ card_number' = id
                 /\ number_of_matches' = matches
                 /\ card_counts' = counts
                 /\ ids_read' = [k \in DOMAIN ids_read \cup {id} |->
                                     (IF k \in DOMAIN ids_read THEN ids_read[k] ELSE 0)
                                     + (IF k = id THEN 1 ELSE 0)]
                 /\ received' = AddReceived(received, (id + 1)..(id + matches), bumped[id])
                 /\ sum' = IF last THEN SumCounts(counts, CountedKeys(counts, id)) ELSE sum
                 /\ answer' = IF last THEN SumCounts(counts, CountedKeys(counts, id)) ELSE answer
                 /\ pc' = IF last THEN "day4_part_two" ELSE "day4_part_two_loop"
    /\ lines_read' = lines_read + 1
    /\ UNCHANGED <<day3vars, latervars, total_points, winning_numbers, our_numbers, matches_read>>

\* A line of solve_part_two that fails one of its `?`.
PartTwoMalformedLine ==
    /\ pc \in {"day4_start", "day4_part_two_loop"}
    /\ lines_read < MaxCards
    /\ pc' = "day4_error"
    /\ UNCHANGED <<answer, day3vars, day4vars, latervars>>

\* The text has no line at all: the loop is not entered, Ok(sum) with sum = 0.
PartTwoEmptyText ==
    /\ pc = "day4_start"
    /\ answer' = sum
    /\ pc' = "day4_part_two"
    /\ UNCHANGED <<day3vars, day4vars, latervars>>

NextCards ==
    \/ PartOneLine
    \/ PartOneMalformedLine
    \/ PartOneReturn
    \/ PartTwoLine
    \/ PartTwoMalformedLine
    \/ PartTwoEmptyText

SpecCards == InitCards /\ [][NextCards]_vars

\* ------------------------------------------- day3: what the text itself says

Rows == Lines(text)

\* The symbols of the text, read off its characters.
SymbolsOfText ==
    LET rows == Rows
    IN  UNION {{[row |-> r, offset |-> x, symbol |-> rows[r + 1][x + 1]] :
                  x \in {z \in 0..(Len(rows[r + 1]) - 1) : is_a_symbol(rows[r + 1][z + 1])}} :
               r \in 0..(Len(rows) - 1)}

IsDigitAt(x, r) ==
    /\ r \in 0..(Len(Rows) - 1)
    /\ x \in 0..(Len(Rows[r + 1]) - 1)
    /\ Rows[r + 1][x + 1] \in AsciiDigits

\* The decimal value of the digits of row r from column b to column e.
RECURSIVE DecimalValue(_, _, _)
DecimalValue(r, b, e) ==
    IF b > e THEN 0
    ELSE DigitValue(Rows[r + 1][b + 1]) * 10 ^ (e - b) + DecimalValue(r, b + 1, e)

\* The maximal runs of digits of the text.
DigitRuns ==
    UNION {{[row |-> r, begin |-> b, end |-> e, number |-> DecimalValue(r, b, e)] :
              <<b, e>> \in {be \in (0..(Len(Rows[r + 1]) - 1)) \X (0..(Len(Rows[r + 1]) - 1)) :
                              /\ be[1] <= be[2]
                              /\ \A x \in be[1]..be[2] : IsDigitAt(x, r)
                              /\ ~IsDigitAt(be[1] - 1, r)
                              /\ ~IsDigitAt(be[2] + 1, r)}} :
           r \in 0..(Len(Rows) - 1)}

Abs(n) == IF n < 0 THEN -n ELSE n

\* The cell (x, y) lies in the 3x3 neighbourhood of the symbol s.
Covers(s, x, y) == Abs(x - s.offset) <= 1 /\ Abs(y - s.row) <= 1

\* The symbol s touches the part number pn, diagonals included.
Adjacent(s, pn) == \E x \in pn.begin..pn.end : Covers(s, x, pn.row)

RECURSIVE SumOver(_, _)
SumOver(f, keys) ==
    IF keys = {} THEN 0
    ELSE LET k == CHOOSE j \in keys : TRUE IN f[k] + SumOver(f, keys \ {k})

RECURSIVE ProductOver(_, _)
ProductOver(f, keys) ==
    IF keys = {} THEN 1
    ELSE LET k == CHOOSE j \in keys : TRUE IN f[k] * ProductOver(f, keys \ {k})

PartIndexes == 1..Len(part_numbers)

NumberOf == [i \in PartIndexes |-> part_numbers[i].number]

Returned == pc # "day3_start"

\* ------------------------------------------------------------------ C1
\* C1: every maximal run of digits of every row yields exactly one
\* PartNumber with its inclusive begin and end columns and its decimal value,
\* however the run ends ('.', a symbol or the end of the line).
C1_EveryRunYieldsOnePartNumber ==
    Returned =>
        /\ {part_numbers[i] : i \in PartIndexes} = DigitRuns
        /\ Len(part_numbers) = Cardinality(DigitRuns)

\* ------------------------------------------------------------------ C2
\* The '*' symbols of the text that touch exactly two of the part numbers.
GearsOfText ==
    {s \in SymbolsOfText :
        /\ s.symbol = "*"
        /\ Cardinality({i \in PartIndexes : Adjacent(s, part_numbers[i])}) = 2}

\* C2: solve_part_two returns the sum, over every '*' that is adjacent to
\* exactly two part numbers, of the product of those two numbers.
C2_SumOfAllGearRatios ==
    pc = "day3_part_two" =>
        answer = SumOver([s \in GearsOfText |->
                            ProductOver(NumberOf,
                                {i \in PartIndexes : Adjacent(s, part_numbers[i])})],
                         GearsOfText)

\* ------------------------------------------------------------------ C3
CountedByKey ==
    {i \in PartIndexes :
        \E x \in part_numbers[i].begin..part_numbers[i].end :
            <<x, part_numbers[i].row>> \in DOMAIN valid_positions}

CountedByNeighbourhood ==
    LET symbols == SymbolsOfText
    IN  {i \in PartIndexes : \E s \in symbols : Adjacent(s, part_numbers[i])}

\* C3: solve_part_one returns the sum of exactly the PartNumbers that have a
\* cell among the keys of the merged map, and these are the PartNumbers with
\* a cell in the 3x3 neighbourhood of some symbol of the same, the previous
\* or the next row, whatever entries were overwritten.
C3_PartOneSumsPartsNearSymbols ==
    pc = "day3_part_one" =>
        /\ CountedByKey = CountedByNeighbourhood
        /\ answer = SumOver(NumberOf, CountedByNeighbourhood)

\* A counted part number with a cell in the neighbourhood of two symbols (so
\* that one entry was overwritten), beside a part number that is not counted.
C3_Witness ==
    /\ pc = "day3_part_one"
    /\ answer > 0
    /\ PartIndexes \ CountedByNeighbourhood # {}
    /\ \E i \in CountedByNeighbourhood :
          \E x \in part_numbers[i].begin..part_numbers[i].end :
              Cardinality({s \in SymbolsOfText : Covers(s, x, part_numbers[i].row)}) >= 2

\* ------------------------------------------------------------------ C4
\* The columns of a part number whose entry is a '*'.
StarColumns(pn) ==
    {x \in pn.begin..pn.end :
        /\ <<x, pn.row>> \in DOMAIN valid_positions
        /\ valid_positions[<<x, pn.row>>].symbol = "*"}

LeftmostStar(pn) ==
    valid_positions[<<CHOOSE x \in StarColumns(pn) : \A z \in StarColumns(pn) : x <= z,
                      pn.row>>]

MembersOf(s) ==
    {i \in PartIndexes : /\ StarColumns(part_numbers[i]) # {}
                         /\ LeftmostStar(part_numbers[i]) = s}

GroupKeys ==
    {LeftmostStar(part_numbers[i]) :
        i \in {j \in PartIndexes : StarColumns(part_numbers[j]) # {}}}

NumbersOf(seq) == [i \in 1..Len(seq) |-> seq[i].number]

CoveringSymbols(symbols, x, y) == {s \in symbols : Covers(s, x, y)}

CoveredCells(symbols) ==
    UNION {{<<x, y>> : x \in saturating_sub(s.offset, 1)..(s.offset + 1),
                       y \in saturating_sub(s.row, 1)..(s.row + 1)} :
           s \in symbols}

LaterInScan(s, t) == t.row > s.row \/ (t.row = s.row /\ t.offset >= s.offset)

\* C5: after all rows are scanned and merged, the keys of the map are exactly
\* the cells of the neighbourhoods (clamped at 0) of the symbols, and each key
\* maps to the covering symbol that is last in scan order.
C5_MapHoldsLastCoveringSymbol ==
    Returned =>
        LET symbols == SymbolsOfText
        IN  /\ DOMAIN valid_positions = CoveredCells(symbols)
            /\ \A k \in CoveredCells(symbols) :
                  /\ valid_positions[k] \in CoveringSymbols(symbols, k[1], k[2])
                  /\ \A s \in CoveringSymbols(symbols, k[1], k[2]) :
                        LaterInScan(s, valid_positions[k])

\* A cell covered by a symbol of an earlier row and a greater column and by a
\* symbol of a later row, and a cell covered by two symbols of one row.
C5_Witness ==
    /\ Returned
    /\ LET symbols == SymbolsOfText
       IN  /\ \E k \in CoveredCells(symbols) :
                 \E s, t \in CoveringSymbols(symbols, k[1], k[2]) :
                     s.row < t.row /\ s.offset > t.offset
           /\ \E k \in CoveredCells(symbols) :
                 \E s, t \in CoveringSymbols(symbols, k[1], k[2]) :
                     s.row = t.row /\ s.offset < t.offset

\* ------------------------------------------------------------------ C6
\* C6: the answer of solve_part_two is the sum of the instance counts of
\* exactly the card ids that have a line in the input, whatever the order of
\* the lines and the gaps between the ids.
C6_SumOverTheCardsOfTheInput ==
    pc = "day4_part_two" => answer = SumCounts(card_counts, DOMAIN ids_read)

\* ------------------------------------------------------------------ C7
GreatestIdRead ==
    IF DOMAIN ids_read = {} THEN 0
    ELSE CHOOSE k \in DOMAIN ids_read : \A j \in DOMAIN ids_read : j <= k

\* C7: an entry whose id is greater than every card id of the input adds
\* nothing to the sum returned: the sum is made of entries up to that id.
C7_NothingBeyondTheGreatestId ==
    pc = "day4_part_two" =>
        \E counted \in SUBSET {k \in DOMAIN card_counts : k <= GreatestIdRead} :
            answer = SumCounts(card_counts, counted)

\* A cascade has made entries beyond the greatest id of the input, and the
\* last line is not the one of the greatest id.
C7_Witness ==
    /\ pc = "day4_part_two"
    /\ answer > 0
    /\ \E k \in DOMAIN card_counts : k > GreatestIdRead
    /\ card_number < GreatestIdRead

\* ------------------------------------------------------------------ C8
CountBefore(k) == IF k \in DOMAIN card_counts THEN card_counts[k] ELSE 0

ReceivedBefore(k) == IF k \in DOMAIN received THEN received[k] ELSE 0

PartTwoStep ==
    /\ lines_read' = lines_read + 1
    /\ pc' \in {"day4_part_two_loop", "day4_part_two"}

C9_MatchCountOfDistinctNumbers ==
    pc = "day4_part_one_loop" =>
        number_of_matches =
            Cardinality({our_numbers[i] : i \in DOMAIN our_numbers} \cap winning_numbers)

\* C9 as amended: match_count is the number of entries of the list of numbers
\* one has, a repeated number counted each time, whose number is in the
\* winning set.
C9_MatchCountOfEntries ==
    pc = "day4_part_one_loop" =>
        number_of_matches =
            Cardinality({i \in DOMAIN our_numbers : our_numbers[i] \in winning_numbers})

\* A card that lists a winning number twice beside a number that wins nothing.
C9_Witness ==
    /\ pc = "day4_part_one_loop"
    /\ \E i, j \in DOMAIN our_numbers :
          i # j /\ our_numbers[i] = our_numbers[j] /\ our_numbers[i] \in winning_numbers
    /\ winning_numbers # Numbers

\* ------------------------------------------------------------------ C10
Score(match_count) == IF match_count > 0 THEN 2 ^ (match_count - 1) ELSE 0

RECURSIVE SumOfScores(_, _)
SumOfScores(tally, counts) ==
    IF counts = {} THEN 0
    ELSE LET m == CHOOSE j \in counts : TRUE
         IN  tally[m] * Score(m) + SumOfScores(tally, counts \ {m})

Space == " "

None == [some |-> FALSE]

\* The position of the first c of s at or after k; 0 when there is none.
RECURSIVE Find(_, _, _)
Find(s, c, k) ==
    IF k > Len(s) THEN 0
    ELSE IF s[k] = c THEN k
    ELSE Find(s, c, k + 1)

\* str::split_once: what is before and what is after the first delimiter.
split_once(s, c) ==
    LET k == Find(s, c, 1)
    IN  IF k = 0 THEN None
        ELSE [some |-> TRUE, left |-> SubSeq(s, 1, k - 1),
              right |-> SubSeq(s, k + 1, Len(s))]

\* str::split: the pieces between the delimiters, empty pieces included; a
\* string without the delimiter is one piece.
RECURSIVE SplitFrom(_, _, _, _)
SplitFrom(s, c, k, cur) ==
    IF k > Len(s) THEN <<cur>>
    ELSE IF s[k] = c THEN <<cur>> \o SplitFrom(s, c, k + 1, <<>>)
    ELSE SplitFrom(s, c, k + 1, Append(cur, s[k]))

split(s, c) == SplitFrom(s, c, 1, <<>>)

RECURSIVE trim_start(_)
trim_start(s) ==
    IF s # <<>> /\ Head(s) = Space THEN trim_start(Tail(s)) ELSE s

RECURSIVE trim_end(_)
trim_end(s) ==
    IF s # <<>> /\ s[Len(s)] = Space THEN trim_end(SubSeq(s, 1, Len(s) - 1)) ELSE s

\* The string without the white space at its start.
trim_the_start_only(s) == trim_start(s)

\* str::trim: the string without the white space at its two ends.
trim(s) == trim_end(trim_start(s))

\* A parse that takes every string, one that is no number as zero.
parse_anything(s) ==
    IF s # <<>> /\ \A k \in 1..Len(s) : is_ascii_digit(s[k])
    THEN [ok |-> TRUE, value |-> ParseNumber(s)]
    ELSE [ok |-> TRUE, value |-> 0]

\* str::parse::<u64>: a string of one or more ASCII digits, which a '+' may
\* precede, is a number; every other string is an error.
parse_u64(s) ==
    LET digits == IF s # <<>> /\ Head(s) = "+" THEN Tail(s) ELSE s
    IN  IF digits # <<>> /\ \A k \in 1..Len(digits) : is_ascii_digit(digits[k])
        THEN [ok |-> TRUE, value |-> ParseNumber(digits)]
        ELSE [ok |-> FALSE]

\* ------------------------------------------------------ day2: the cube games

Red == <<"r", "e", "d">>

Green == <<"g", "r", "e", "e", "n">>

Blue == <<"b", "l", "u", "e">>

RedLimit == 12

GreenLimit == 13

BlueLimit == 14

\* The rules with every limit one cube lower.
allowed_below_the_limit(number, color) ==
    CASE color = Red /\ number < RedLimit -> TRUE
      [] color = Green /\ number < GreenLimit -> TRUE
      [] color = Blue /\ number < BlueLimit -> TRUE
      [] OTHER -> FALSE

allowed_for_part_one(number, color) ==
    CASE color = Red /\ number <= RedLimit -> TRUE
      [] color = Green /\ number <= GreenLimit -> TRUE
      [] color = Blue /\ number <= BlueLimit -> TRUE
      [] OTHER -> FALSE

ParseError(message) == [ok |-> FALSE, error |-> message]

\* The inner loop of parse_line: the pieces of one subset, in order, each
\* trimmed and split at its first space into a count and a color.
RECURSIVE parse_cube_data(_, _, _)
parse_cube_data(cube_data, k, parsed_cube_data) ==
    IF k > Len(cube_data) THEN [ok |-> TRUE, value |-> parsed_cube_data]
    ELSE LET pair == split_once(trim(cube_data[k]), Space)
         IN  IF ~pair.some THEN ParseError("dice data not space separated")
             ELSE LET parsed_count == parse_u64(pair.left)
                  IN  IF ~parsed_count.ok THEN ParseError("count is no number")
                      ELSE parse_cube_data(cube_data, k + 1,
                               Append(parsed_cube_data,
                                      <<parsed_count.value, pair.right>>))

\* The outer loop of parse_line: the subsets, in order.
RECURSIVE parse_subsets(_, _, _)
parse_subsets(subsets, k, parsed_subsets) ==
    IF k > Len(subsets) THEN [ok |-> TRUE, value |-> parsed_subsets]
    ELSE LET parsed_cube_data == parse_cube_data(split(subsets[k], ","), 1, <<>>)
         IN  IF ~parsed_cube_data.ok THEN parsed_cube_data
             ELSE parse_subsets(subsets, k + 1,
                                Append(parsed_subsets, parsed_cube_data.value))

parse_line(t) ==
    LET prefix == split_once(t, Space)
    IN  IF ~prefix.some THEN ParseError("no space separated data")
        ELSE LET useful_text == split_once(prefix.right, ":")
             IN  IF ~useful_text.some THEN ParseError("no colon separated data")
                 ELSE LET parsed_id == parse_u64(useful_text.left)
                      IN  IF ~parsed_id.ok THEN ParseError("id is no number")
                          ELSE LET parsed_subsets ==
                                       parse_subsets(split(useful_text.right, ";"), 1, <<>>)
                               IN  IF ~parsed_subsets.ok THEN parsed_subsets
                                   ELSE [ok |-> TRUE, id |-> parsed_id.value,
                                         sets |-> parsed_subsets.value]

\* The entry of highest_count_seen for one (count, color): a vacant color gets
\* the count, an occupied one keeps the greater of its value and the count.
CountCube(counts, cube) ==
    LET count == cube[1]
        color == cube[2]
    IN  IF color \in DOMAIN counts
        THEN (IF counts[color] < count
              THEN [counts EXCEPT ![color] = count]
              ELSE counts)
        ELSE counts @@ (color :> count)

RECURSIVE CountSet(_, _, _)
CountSet(counts, set, k) ==
    IF k > Len(set) THEN counts
    ELSE CountSet(CountCube(counts, set[k]), set, k + 1)

RECURSIVE CountSets(_, _, _)
CountSets(counts, sets, k) ==
    IF k > Len(sets) THEN counts
    ELSE CountSets(CountSet(counts, sets[k], 1), sets, k + 1)

highest_count_seen(data) == CountSets(<<>>, data.sets, 1)

\* possible_game with within_rules = allowed_for_part_one, the one function
\* it is called with (solve_part_one).
possible_game(counts) ==
    \A color \in DOMAIN counts : allowed_for_part_one(counts[color], color)

\* counts.values().product(): the product of the values of the colors in keys.
RECURSIVE ValuesProduct(_, _)
ValuesProduct(counts, keys) ==
    IF keys = {} THEN 1
    ELSE LET color == CHOOSE k \in keys : TRUE
         IN  counts[color] * ValuesProduct(counts, keys \ {color})

\* The product over red, green and blue, a color not seen counting as none.
PowerOfThreeColors(counts) ==
    LET of(color) == IF color \in DOMAIN counts THEN counts[color] ELSE 0
    IN  of(Red) * of(Green) * of(Blue)

Power(counts) == ValuesProduct(counts, DOMAIN counts)

RECURSIVE SumSeq(_)
SumSeq(s) == IF s = <<>> THEN 0 ELSE Head(s) + SumSeq(Tail(s))

\* ------------------------------------------------------ day2: the solvers

\* The loop of solve_part_one over the lines from the k-th on.  It returns
\* at the first line parse_line rejects, with what was gathered before it.
RECURSIVE PartOneGames(_, _, _)
PartOneGames(ls, k, st) ==
    IF k > Len(ls) THEN [ok |-> TRUE] @@ st
    ELSE LET data == parse_line(ls[k])
         IN  IF ~data.ok THEN [ok |-> FALSE] @@ st
             ELSE LET counts == highest_count_seen(data)
                  IN  PartOneGames(ls, k + 1,
                          [parsed |-> Append(st.parsed, data),
                           counts |-> Append(st.counts, counts),
                           game_ids |-> IF possible_game(counts)
                                        THEN Append(st.game_ids, data.id)
                                        ELSE st.game_ids])

\* The loop of solve_part_two.
RECURSIVE PartTwoGames(_, _, _)
PartTwoGames(ls, k, st) ==
    IF k > Len(ls) THEN [ok |-> TRUE] @@ st
    ELSE LET data == parse_line(ls[k])
         IN  IF ~data.ok THEN [ok |-> FALSE] @@ st
             ELSE LET counts == highest_count_seen(data)
                  IN  PartTwoGames(ls, k + 1,
                          [parsed |-> Append(st.parsed, data),
                           counts |-> Append(st.counts, counts),
                           game_powers |-> Append(st.game_powers, Power(counts))])

\* ---- the texts

Yellow == <<"y", "e", "l", "l", "o", "w">>

\* The cubes a text is written from: for each color of the rules the
\* greatest count allowed and the least count not allowed, a color the rules
\* do not name, and a cube whose count is no number.
CubeKinds ==
    { [count |-> <<"1", "2">>, color |-> Red],
      [count |-> <<"1", "3">>, color |-> Red],
      [count |-> <<"1", "3">>, color |-> Green],
      [count |-> <<"1", "4">>, color |-> Green],
      [count |-> <<"1", "4">>, color |-> Blue],
      [count |-> <<"1", "5">>, color |-> Blue],
      [count |-> <<"3">>, color |-> Yellow],
      [count |-> <<"x">>, color |-> Red] }

\* What follows a cube: the next cube of the subset, the next subset of the
\* game, or the next game.
Separators == {",", ";", NL}

\* Most cubes of a cube text.
MaxTextCubes == 2

FlatTexts ==
    UNION { { f \in [1..n -> CubeKinds \X Separators] : n > 0 => f[n][2] = NL }
            : n \in 0..MaxTextCubes }

\* The pieces of a flat text between the separators sep, as sequences of
\* its entries.
RECURSIVE Group(_, _, _, _)
Group(f, sep, k, cur) ==
    IF k > Len(f) THEN (IF cur = <<>> THEN <<>> ELSE <<cur>>)
    ELSE IF f[k][2] \in sep THEN <<Append(cur, f[k])>> \o Group(f, sep, k + 1, <<>>)
    ELSE Group(f, sep, k + 1, Append(cur, f[k]))

\* The games of a flat text: each a sequence of subsets, each a sequence of
\* cubes.
GamesOf(f) ==
    LET byGame == Group(f, {NL}, 1, <<>>)
    IN  [g \in 1..Len(byGame) |->
            LET bySubset == Group(byGame[g], {";", NL}, 1, <<>>)
            IN  [s \in 1..Len(bySubset) |->
                    [c \in 1..Len(bySubset[s]) |-> bySubset[s][c][1]]]]

\* The decimal digits of a number.
RECURSIVE Digits(_)
Digits(n) ==
    LET d == CHOOSE c \in AsciiDigits : DigitValue(c) = n % 10
    IN  IF n < 10 THEN <<d>> ELSE Append(Digits(n \div 10), d)

RECURSIVE Join(_, _)
Join(pieces, sep) ==
    IF pieces = <<>> THEN <<>>
    ELSE IF Len(pieces) = 1 THEN pieces[1]
    ELSE pieces[1] \o sep \o Join(Tail(pieces), sep)

GameWord == <<"G", "a", "m", "e">>

WriteCube(cube) == cube.count \o <<Space>> \o cube.color

\* A line as the puzzle writes it: "Game 1: 3 blue, 4 red; 1 red".
WriteLine(id, subsets) ==
    GameWord \o <<Space>> \o Digits(id) \o <<":", Space>>
    \o Join([s \in 1..Len(subsets) |->
                Join([c \in 1..Len(subsets[s]) |-> WriteCube(subsets[s][c])],
                     <<",", Space>>)],
            <<";", Space>>)

\* The text of the games, the k-th of them as game k, every line ended.
RECURSIVE WriteText(_, _)
WriteText(gs, k) ==
    IF k > Len(gs) THEN <<>>
    ELSE WriteLine(k, gs[k]) \o <<NL>> \o WriteText(gs, k + 1)

InitCubes ==
    /\ \E f \in FlatTexts :
          /\ games = GamesOf(f)
          /\ cube_text = WriteText(GamesOf(f), 1)
    /\ pc = "day2_start"
    /\ answer = 0
    /\ parsed_games = <<>>
    /\ counts_seen = <<>>
    /\ game_ids = <<>>
    /\ game_powers = <<>>
    /\ line_shape = <<>>
    /\ line = <<>>
    /\ parsed_line = <<>>
    /\ Day3Idle
    /\ Day4Idle
    /\ Day1Idle
    /\ ScanIdle
    /\ LoopIdle

CubesPartOne ==
    /\ pc = "day2_start"
    /\ LET run == PartOneGames(Lines(cube_text), 1,
                      [parsed |-> <<>>, counts |-> <<>>, game_ids |-> <<>>])
       IN  /\ parsed_games' = run.parsed
           /\ counts_seen' = run.counts
           /\ game_ids' = run.game_ids
           /\ pc' = IF run.ok THEN "day2_part_one" ELSE "day2_part_one_error"
           /\ answer' = IF run.ok THEN SumSeq(run.game_ids) ELSE answer
    /\ UNCHANGED <<games, cube_text, game_powers, line_shape, line, parsed_line,
                   day3vars, day4vars, day1vars, scanvars, loopvars>>

CubesPartTwo ==
    /\ pc = "day2_start"
    /\ LET run == PartTwoGames(Lines(cube_text), 1,
                      [parsed |-> <<>>, counts |-> <<>>, game_powers |-> <<>>])
       IN  /\ parsed_games' = run.parsed
           /\ counts_seen' = run.counts
           /\ game_powers' = run.game_powers
           /\ pc' = IF run.ok THEN "day2_part_two" ELSE "day2_part_two_error"
           /\ answer' = IF run.ok THEN SumSeq(run.game_powers) ELSE answer
    /\ UNCHANGED <<games, cube_text, game_ids, line_shape, line, parsed_line,
                   day3vars, day4vars, day1vars, scanvars, loopvars>>

NextCubes == CubesPartOne \/ CubesPartTwo

SpecCubes == InitCubes /\ [][NextCubes]_vars

\* ------------------------------------------ day2: what the games themselves say

GameIndexes == 1..Len(games)

CubesOf(game) ==
    UNION { {game[s][c] : c \in 1..Len(game[s])} : s \in 1..Len(game) }

ColorsOf(game) == {cube.color : cube \in CubesOf(game)}

Maximum(S) == CHOOSE m \in S : \A n \in S : n <= m

\* For each color of a game, the greatest count any of its subsets shows.
MaximaOf(game) ==
    [color \in ColorsOf(game) |->
        Maximum({ParseNumber(cube.count) :
                    cube \in {c \in CubesOf(game) : c.color = color}})]

PowerOf(game) == ProductOver(MaximaOf(game), ColorsOf(game))

PowersOfGames == [g \in GameIndexes |-> PowerOf(games[g])]

ClaimedLimits == (Red :> 12) @@ (Green :> 13) @@ (Blue :> 14)

WithinLimits(game) ==
    \A color \in ColorsOf(game) :
        /\ color \in DOMAIN ClaimedLimits
        /\ MaximaOf(game)[color] <= ClaimedLimits[color]

PossibleGames == {g \in GameIndexes : WithinLimits(games[g])}

C12_SumOfIdsOfPossibleGames ==
    pc = "day2_part_one" =>
        /\ Len(counts_seen) = Len(games)
        /\ \A g \in GameIndexes : counts_seen[g] = MaximaOf(games[g])
        /\ {game_ids[i] : i \in 1..Len(game_ids)} = PossibleGames
        /\ Len(game_ids) = Cardinality(PossibleGames)
        /\ answer = SumOver([g \in GameIndexes |-> g], PossibleGames)

\* A possible game at a limit and a game one cube over a limit.
C12_Witness ==
    /\ pc = "day2_part_one"
    /\ Len(games) = 2
    /\ Len(game_ids) = 1
    /\ \E g \in PossibleGames : \E color \in ColorsOf(games[g]) :
           MaximaOf(games[g])[color] = ClaimedLimits[color]
    /\ \E g \in GameIndexes \ PossibleGames : \E color \in ColorsOf(games[g]) :
           /\ color \in DOMAIN ClaimedLimits
           /\ MaximaOf(games[g])[color] = ClaimedLimits[color] + 1

\* ------------------------------------------------- day2: one line, parse_line

\* Greatest game id of a line.
MaxGameId == 2

\* Most cubes of a line.
MaxLineCubes == 2

Gaps == {<<>>, <<Space>>}

\* The cubes a line is written from: a count of one digit, a count of two,
\* a count that is no number, and a cube without the space between its
\* count and its color.
LineCubeKinds ==
    { [count |-> <<"3">>, gap |-> <<Space>>, color |-> Blue],
      [count |-> <<"1", "2">>, gap |-> <<Space>>, color |-> Red],
      [count |-> <<"x">>, gap |-> <<Space>>, color |-> Red],
      [count |-> <<"3">>, gap |-> <<>>, color |-> Blue] }

LineCubes ==
    UNION { { f \in [1..n -> LineCubeKinds \X {",", ";"}] : f[n][2] = ";" }
            : n \in 1..MaxLineCubes }

\* How a line is written: the white space after the word Game, the id, the
\* white space before and after the colon, the colon itself, the cubes with
\* the separator that follows each, and the white space before and after
\* every ',' and ';'.
LineShapes ==
    [ prefix_gap : Gaps,
      id : {Digits(n) : n \in 1..MaxGameId} \cup {<<"x">>},
      before_colon : Gaps,
      colon : {<<>>, <<":">>},
      after_colon : Gaps,
      cubes : LineCubes,
      before_separator : Gaps,
      after_separator : Gaps ]

WriteCubeOf(shape, k) ==
    LET cube == shape.cubes[k][1]
    IN  cube.count \o cube.gap \o cube.color
        \o (IF k = Len(shape.cubes) THEN <<>>
            ELSE shape.before_separator \o <<shape.cubes[k][2]>>
                 \o shape.after_separator)

RECURSIVE WriteCubesOf(_, _)
WriteCubesOf(shape, k) ==
    IF k > Len(shape.cubes) THEN <<>>
    ELSE WriteCubeOf(shape, k) \o WriteCubesOf(shape, k + 1)

WriteShape(shape) ==
    GameWord \o shape.prefix_gap \o shape.id \o shape.before_colon
    \o shape.colon \o shape.after_colon \o WriteCubesOf(shape, 1)

InitCubeLine ==
    /\ line_shape \in LineShapes
    /\ line = WriteShape(line_shape)
    /\ parsed_line = <<>>
    /\ pc = "day2_line"
    /\ answer = 0
    /\ games = <<>>
    /\ cube_text = <<>>
    /\ parsed_games = <<>>
    /\ counts_seen = <<>>
    /\ game_ids = <<>>
    /\ game_powers = <<>>
    /\ Day3Idle
    /\ Day4Idle
    /\ Day1Idle
    /\ ScanIdle
    /\ LoopIdle

ParseLine ==
    /\ pc = "day2_line"
    /\ parsed_line' = parse_line(line)
    /\ pc' = "day2_line_parsed"
    /\ UNCHANGED <<answer, games, cube_text, parsed_games, counts_seen, game_ids,
                   game_powers, line_shape, line,
                   day3vars, day4vars, day1vars, scanvars, loopvars>>

NextCubeLine == ParseLine

SpecCubeLine == InitCubeLine /\ [][NextCubeLine]_vars

\* ---- what the shape of a line says

CubeIndexes == 1..Len(line_shape.cubes)

CubeOf(k) == line_shape.cubes[k][1]

IsNumber(s) == s # <<>> /\ \A k \in 1..Len(s) : s[k] \in AsciiDigits

\* The subsets of the line: the cubes up to each ';', as (count, color).
SubsetsOfShape ==
    LET bySubset == Group(line_shape.cubes, {";"}, 1, <<>>)
    IN  [s \in 1..Len(bySubset) |->
            [c \in 1..Len(bySubset[s]) |->
                <<ParseNumber(bySubset[s][c][1].count), bySubset[s][c][1].color>>]]

LacksPrefixSpace == line_shape.prefix_gap = <<>>

LacksColon == line_shape.colon = <<>>

LacksSemicolon == \A k \in 1..Len(line) : line[k] # ";"

LacksCubeSpace == \E k \in CubeIndexes : CubeOf(k).gap = <<>>

LacksNumber ==
    \/ ~IsNumber(line_shape.id)
    \/ \E k \in CubeIndexes : ~IsNumber(CubeOf(k).count)

Parsed == pc = "day2_line_parsed"

\* ------------------------------------------------------------------ C13
\* C13: parse_line returns an error whenever the line lacks the space after
\* the game prefix, lacks the ':', lacks a ';', lacks the space between a
\* count and its color, or has a count or an id that is no unsigned integer.
C13_ErrorOnEveryLack ==
    (Parsed /\ (LacksPrefixSpace \/ LacksColon \/ LacksSemicolon
                \/ LacksCubeSpace \/ LacksNumber))
        => ~parsed_line.ok

\* C13, amended: parse_line returns an error whenever the line lacks the
\* space after the game prefix, lacks the ':', lacks the space between a
\* count and its color, or has a count or an id that is no unsigned integer;
\* a line without ';' is a game of one subset and no error.
C13_ErrorOnEveryLackButSemicolon ==
    /\ (Parsed /\ (LacksPrefixSpace \/ LacksColon \/ LacksCubeSpace \/ LacksNumber))
           => ~parsed_line.ok
    /\ (Parsed /\ LacksSemicolon /\ parsed_line.ok) => Len(parsed_line.sets) = 1

\* A line of two subsets whose second cube lacks its space, and the error.
C13_Witness ==
    /\ Parsed
    /\ ~LacksSemicolon
    /\ ~(LacksPrefixSpace \/ LacksColon \/ LacksNumber)
    /\ CubeOf(1).gap = <<Space>>
    /\ CubeOf(2).gap = <<>>
    /\ parsed_line = ParseError("dice data not space separated")

\* ------------------------------------------------------------------ C14
WrittenToTheGrammar ==
    ~(LacksPrefixSpace \/ LacksColon \/ LacksCubeSpace \/ LacksNumber)

DataOfShape ==
    [ok |-> TRUE, id |-> ParseNumber(line_shape.id), sets |-> SubsetsOfShape]

\* C14: for every line "Game " id ":" subset (";" subset)*, with optional
\* white space around the ':', ';' and ',' separators, parse_line succeeds
\* and returns the id and the subsets in input order, each with its (count,
\* color) pairs in order, the color free of surrounding white space.
C14_ParsesWithSpaceAroundSeparators ==
    (Parsed /\ WrittenToTheGrammar) => parsed_line = DataOfShape

\* C14, amended: the same for white space after the ':' and around ';' and
\* ','; the id is parsed as written, so white space between the id and the
\* ':' is an error.
C14_ParsesWithSpaceButBeforeColon ==
    /\ (Parsed /\ WrittenToTheGrammar /\ line_shape.before_colon = <<>>)
           => parsed_line = DataOfShape
    /\ (Parsed /\ line_shape.before_colon # <<>>) => ~parsed_line.ok

\* Two subsets, white space on both sides of the ';' and after the ':'.
C14_Witness ==
    /\ Parsed
    /\ WrittenToTheGrammar
    /\ line_shape.before_colon = <<>>
    /\ line_shape.after_colon = <<Space>>
    /\ line_shape.before_separator = <<Space>>
    /\ line_shape.after_separator = <<Space>>
    /\ Len(SubsetsOfShape) = 2
    /\ parsed_line.ok
    /\ parsed_line.sets[1][1][2] = line_shape.cubes[1][1].color

\* ------------------------------------------------ day1: the digit extractor

\* The patterns filter_digits_and_numeric_words searches for, in its order.
NUMERICS ==
    << <<"0">>,
       <<"1">>,
       <<"2">>,
       <<"3">>,
       <<"4">>,
       <<"5">>,
       <<"6">>,
       <<"7">>,
       <<"8">>,
       <<"9">>,
       <<"z", "e", "r", "o">>,
       <<"o", "n", "e">>,
       <<"t", "w", "o">>,
       <<"t", "h", "r", "e", "e">>,
       <<"f", "o", "u", "r">>,
       <<"f", "i", "v", "e">>,
       <<"s", "i", "x">>,
       <<"s", "e", "v", "e", "n">>,
       <<"e", "i", "g", "h", "t">>,
       <<"n", "i", "n", "e">> >>

\* A character that is numeric and no ASCII digit: the superscript two.
OtherNumerics == {"²"}

\* char::is_numeric: the characters of the Unicode categories Nd, Nl and No.
is_numeric(c) == c \in AsciiDigits \cup OtherNumerics

to_u64(s) ==
    CASE Len(s) = 1 /\ s[1] \in AsciiDigits -> parse_u64(s)
      [] s = <<"z", "e", "r", "o">> -> [ok |-> TRUE, value |-> 0]
      [] s = <<"o", "n", "e">> -> [ok |-> TRUE, value |-> 1]
      [] s = <<"t", "w", "o">> -> [ok |-> TRUE, value |-> 2]
      [] s = <<"t", "h", "r", "e", "e">> -> [ok |-> TRUE, value |-> 3]
      [] s = <<"f", "o", "u", "r">> -> [ok |-> TRUE, value |-> 4]
      [] s = <<"f", "i", "v", "e">> -> [ok |-> TRUE, value |-> 5]
      [] s = <<"s", "i", "x">> -> [ok |-> TRUE, value |-> 6]
      [] s = <<"s", "e", "v", "e", "n">> -> [ok |-> TRUE, value |-> 7]
      [] s = <<"e", "i", "g", "h", "t">> -> [ok |-> TRUE, value |-> 8]
      [] s = <<"n", "i", "n", "e">> -> [ok |-> TRUE, value |-> 9]
      [] OTHER -> [ok |-> FALSE]

extract_first_and_last_digits(t) ==
    LET digits == SelectSeq(t, is_numeric)
    IN  IF digits = <<>> THEN [ok |-> FALSE]
        ELSE parse_u64(<<digits[1], digits[Len(digits)]>>)

\* str::match_indices: the matches of the pattern from left to right, the
\* search going on after the end of a match, each with the offset of its
\* start.  (Offsets are counted in characters; the order of byte offsets is
\* the same.)
RECURSIVE match_indices(_, _, _)
match_indices(t, digit, k) ==
    IF k + Len(digit) - 1 > Len(t) THEN <<>>
    ELSE IF SubSeq(t, k, k + Len(digit) - 1) = digit
         THEN <<<<k - 1, digit>>>> \o match_indices(t, digit, k + Len(digit))
         ELSE match_indices(t, digit, k + 1)

\* The loop over NUMERICS: the matches of each pattern appended in turn.
RECURSIVE AllMatches(_, _)
AllMatches(t, n) ==
    IF n > Len(NUMERICS) THEN <<>>
    ELSE match_indices(t, NUMERICS[n], 1) \o AllMatches(t, n + 1)

\* Insertion of a match behind the matches whose offset is not greater.
RECURSIVE InsertByKey(_, _)
InsertByKey(sorted, m) ==
    IF sorted = <<>> THEN <<m>>
    ELSE IF sorted[Len(sorted)][1] <= m[1] THEN Append(sorted, m)
    ELSE Append(InsertByKey(SubSeq(sorted, 1, Len(sorted) - 1), m),
                sorted[Len(sorted)])

\* The matches in the order the patterns were searched in.
keep_the_order(matches, k, sorted) == matches

\* sort_by_key(|x| x.0): a stable sort by the offset.
RECURSIVE sort_by_key(_, _, _)
sort_by_key(matches, k, sorted) ==
    IF k > Len(matches) THEN sorted
    ELSE sort_by_key(matches, k + 1, InsertByKey(sorted, matches[k]))

\* map(to_u64).collect(): the values, or the first error.
RECURSIVE CollectValues(_, _, _)
CollectValues(matches, k, values) ==
    IF k > Len(matches) THEN [ok |-> TRUE, value |-> values]
    ELSE LET v == to_u64(matches[k][2])
         IN  IF ~v.ok THEN v
             ELSE CollectValues(matches, k + 1, Append(values, v.value))

filter_digits_and_numeric_words(t) ==
    CollectValues(sort_by_key(AllMatches(t, 1), 1, <<>>), 1, <<>>)

extract_first_and_last_digit_or_numeric_word(t) ==
    LET digits == filter_digits_and_numeric_words(t)
    IN  IF ~digits.ok THEN digits
        ELSE IF digits.value = <<>> THEN [ok |-> FALSE]
        ELSE [ok |-> TRUE,
              value |-> digits.value[1] * 10 + digits.value[Len(digits.value)]]

\* The function the solver of the given part applies to a line.
ExtractOf(part, l) ==
    IF part = "one" THEN extract_first_and_last_digits(l)
    ELSE extract_first_and_last_digit_or_numeric_word(l)

\* The loop of solve_part_one and solve_part_two over the lines from the
\* k-th on: the values of the lines before the first line that is an error.
RECURSIVE ReadValues(_, _, _, _)
ReadValues(part, ls, k, values) ==
    IF k > Len(ls) THEN [ok |-> TRUE, values |-> values]
    ELSE LET v == ExtractOf(part, ls[k])
         IN  IF ~v.ok THEN [ok |-> FALSE, values |-> values]
             ELSE ReadValues(part, ls, k + 1, Append(values, v.value))

\* ---- the texts

\* Most pieces of a calibration text.
MaxPieces == 3

\* What a calibration text is written from: two digits, a numeric character
\* that is no ASCII digit, a letter, two number words, two pairs of number
\* words that share a letter, and the line break.
Pieces ==
    { <<"1">>,
      <<"7">>,
      <<"²">>,
      <<"x">>,
      <<"t", "w", "o">>,
      <<"z", "e", "r", "o">>,
      <<"o", "n", "e", "i", "g", "h", "t">>,
      <<"e", "i", "g", "h", "t", "w", "o">>,
      <<NL>> }

RECURSIVE Concat(_)
Concat(pieces) ==
    IF pieces = <<>> THEN <<>> ELSE Head(pieces) \o Concat(Tail(pieces))

Calibrations == UNION { {Concat(f) : f \in [1..n -> Pieces]} : n \in 0..MaxPieces }

InitDigits ==
    /\ calibration \in Calibrations
    /\ values_read = <<>>
    /\ pc = "day1_start"
    /\ answer = 0
    /\ Day3Idle
    /\ Day4Idle
    /\ Day2Idle
    /\ ScanIdle
    /\ LoopIdle

DigitsPartOne ==
    /\ pc = "day1_start"
    /\ LET run == ReadValues("one", Lines(calibration), 1, <<>>)
       IN  /\ values_read' = run.values
           /\ pc' = IF run.ok THEN "day1_part_one" ELSE "day1_part_one_error"
           /\ answer' = IF run.ok THEN SumSeq(run.values) ELSE answer
    /\ UNCHANGED <<calibration, day3vars, day4vars, day2vars, scanvars, loopvars>>

DigitsPartTwo ==
    /\ pc = "day1_start"
    /\ LET run == ReadValues("two", Lines(calibration), 1, <<>>)
       IN  /\ values_read' = run.values
           /\ pc' = IF run.ok THEN "day1_part_two" ELSE "day1_part_two_error"
           /\ answer' = IF run.ok THEN SumSeq(run.values) ELSE answer
    /\ UNCHANGED <<calibration, day3vars, day4vars, day2vars, scanvars, loopvars>>

NextDigits == DigitsPartOne \/ DigitsPartTwo

SpecDigits == InitDigits /\ [][NextDigits]_vars

\* -------------------------------------------- day1: what the text itself says

CalibrationLines == Lines(calibration)

\* The lines the loop came to: those it has a value for and the one after.
LinesReached == {k \in 1..Len(CalibrationLines) : k <= Len(values_read) + 1}

Least(S) == CHOOSE m \in S : \A n \in S : m <= n

Greatest(S) == CHOOSE m \in S : \A n \in S : n <= m

\* Every place of a line where one of "0".."9", "zero".."nine" is written:
\* the offset and the number of the pattern.
Occurrences(l) ==
    { o \in (0..(Len(l) - 1)) \X (1..Len(NUMERICS)) :
        /\ o[1] + Len(NUMERICS[o[2]]) <= Len(l)
        /\ SubSeq(l, o[1] + 1, o[1] + Len(NUMERICS[o[2]])) = NUMERICS[o[2]] }

\* The digit a pattern stands for: "0".."9" and "zero".."nine" in turn.
DigitOfPattern(n) == (n - 1) % 10

DigitAtOffset(l, offset) ==
    DigitOfPattern((CHOOSE o \in Occurrences(l) : o[1] = offset)[2])

OffsetsOf(l) == {o[1] : o \in Occurrences(l)}

FirstTimesTenPlusLast(l) ==
    DigitAtOffset(l, Least(OffsetsOf(l))) * 10 + DigitAtOffset(l, Greatest(OffsetsOf(l)))

\* ------------------------------------------------------------------ C15
\* C15: in part two every occurrence of "0".."9" and "zero".."nine" in a
\* line is found, overlapping ones included, the occurrences are ordered by
\* their starting offset, and the value of the line is first * 10 + last; a
\* single occurrence is both first and last.
C15_FirstAndLastOccurrence ==
    pc \in {"day1_part_two", "day1_part_two_error"} =>
        \A k \in LinesReached :
            Occurrences(CalibrationLines[k]) # {} =>
                /\ k <= Len(values_read)
                /\ values_read[k] = FirstTimesTenPlusLast(CalibrationLines[k])

\* A line whose last number word begins inside another number word, and a
\* line with one occurrence only.
C15_Witness ==
    /\ pc = "day1_part_two"
    /\ \E k \in LinesReached :
          LET occurrences == Occurrences(CalibrationLines[k])
          IN  \E a \in occurrences : \E b \in occurrences :
                 /\ a[1] < b[1]
                 /\ b[1] < a[1] + Len(NUMERICS[a[2]])
                 /\ b[1] = Greatest(OffsetsOf(CalibrationLines[k]))
                 /\ values_read[k] % 10 = DigitOfPattern(b[2])
    /\ \E k \in LinesReached :
          /\ Cardinality(Occurrences(CalibrationLines[k])) = 1
          /\ values_read[k] % 11 = 0

\* ------------------------------------------------------------------ C16
DigitPlaces(l) == {k \in 1..Len(l) : l[k] \in AsciiDigits}

\* C16: in part one, for every line with at least one digit, the value of the
\* line is 10 * first + last of its first and last ASCII digit, every other
\* character being ignored; it is within 0..99, and a line with the single
\* digit d has the value d * 10 + d; the result is the sum over the lines.
C16_FirstAndLastAsciiDigit ==
    pc \in {"day1_part_one", "day1_part_one_error"} =>
        /\ \A k \in LinesReached :
              LET l == CalibrationLines[k]
              IN  DigitPlaces(l) # {} =>
                     /\ k <= Len(values_read)
                     /\ values_read[k] = 10 * DigitValue(l[Least(DigitPlaces(l))])
                                         + DigitValue(l[Greatest(DigitPlaces(l))])
                     /\ values_read[k] \in 0..99
        /\ pc = "day1_part_one" => answer = SumSeq(values_read)

\* ------------------------------------- day3: parse, character by character

\* Longest row handed to parse.
MaxRowLen == 5

\* Greatest row index.
MaxRow == 1

RowTexts == UNION {[1..n -> SchematicChars] : n \in 0..MaxRowLen}

InitParse ==
    /\ row_text \in RowTexts
    /\ row \in 0..MaxRow
    /\ column = 0
    /\ scan = ParseStart
    /\ pc = "day3_parse"
    /\ answer = 0
    /\ Day3Idle
    /\ Day4Idle
    /\ Day2Idle
    /\ Day1Idle
    /\ LoopIdle

\* One turn of the loop of parse: chars.next() gives the character at
\* `column`, and the match on (digit, symbol, mode) acts on it.
ParseNextChar ==
    /\ pc = "day3_parse"
    /\ column < Len(row_text)
    /\ scan' = ParseChar(scan, row, column, row_text[column + 1],
                         column + 1 = Len(row_text))
    /\ column' = column + 1
    /\ UNCHANGED <<pc, answer, row_text, row, day3vars, day4vars, day2vars,
                   day1vars, loopvars>>

\* chars.next() is None: parse returns its vector and its table.
ParseReturn ==
    /\ pc = "day3_parse"
    /\ column = Len(row_text)
    /\ pc' = "day3_parsed"
    /\ UNCHANGED <<answer, scanvars, day3vars, day4vars, day2vars, day1vars, loopvars>>

NextParse == ParseNextChar \/ ParseReturn

SpecParse == InitParse /\ [][NextParse]_vars

\* ------------------------------------------------------------------ C18
BeforeACharacter == pc = "day3_parse" /\ column < Len(row_text)

RecordedParts == {scan.part_numbers[k] : k \in 1..Len(scan.part_numbers)}

\* C18: before each character of a row is consumed, the mode is
\* ParsingNumber iff the buffer of pending digits is not empty; in
\* ParsingNumber the column i is at least 1 and begin <= i - 1, so that
\* end = i - 1 does not underflow; every PartNumber recorded has begin <= end
\* and end - begin + 1 digits in its value string.
C18_ModeBufferAndBounds ==
    /\ BeforeACharacter =>
          /\ (scan.mode = "ParsingNumber") <=> (scan.current_numeric_string # <<>>)
          /\ scan.mode = "ParsingNumber" =>
                /\ column >= 1
                /\ scan.begin <= column - 1
    /\ pc \in {"day3_parse", "day3_parsed"} =>
          \A p \in RecordedParts :
             LET value_string == SubSeq(row_text, p.begin + 1, p.end + 1)
             IN  /\ 0 <= p.begin
                 /\ p.begin <= p.end
                 /\ \A k \in 1..Len(value_string) : is_ascii_digit(value_string[k])
                 /\ ParseNumber(value_string) = p.number
                 /\ Len(Digits(p.number)) = p.end - p.begin + 1

\* A number of two digits is recorded and the digits of the next are pending.
C18_Witness ==
    /\ BeforeACharacter
    /\ scan.mode = "ParsingNumber"
    /\ scan.begin = column - 1
    /\ \E p \in RecordedParts : p.end = p.begin + 1

\* ------------------------------------------ the line loops and their errors

CardWord == <<"C", "a", "r", "d">>

OtherWord == <<"F", "o", "o">>

\* str::split_ascii_whitespace: the pieces between white space, none empty.
split_ascii_whitespace(s) == SelectSeq(split(s, Space), LAMBDA piece : piece # <<>>)

AllNumbers(pieces) == \A k \in 1..Len(pieces) : parse_u64(pieces[k]).ok

\* The checks solve_part_one of day4 makes on a line: the ':', the '|' and
\* the numbers of the two lists.  What is before the ':' is not looked at.
card_line_part_one(l) ==
    LET prefix == split_once(l, ":")
    IN  IF ~prefix.some THEN FALSE
        ELSE LET lists == split_once(prefix.right, "|")
             IN  IF ~lists.some THEN FALSE
                 ELSE /\ AllNumbers(split_ascii_whitespace(lists.left))
                      /\ AllNumbers(split_ascii_whitespace(lists.right))

\* The checks solve_part_two of day4 makes on a line: the ':', the space of
\* the card id, the number of the id, the '|' and the numbers of the lists.
card_line_part_two(l) ==
    LET prefix == split_once(l, ":")
    IN  IF ~prefix.some THEN FALSE
        ELSE LET id == split_once(prefix.left, Space)
             IN  IF ~id.some THEN FALSE
                 ELSE IF ~parse_u64(trim(id.right)).ok THEN FALSE
                 ELSE LET lists == split_once(prefix.right, "|")
                      IN  IF ~lists.some THEN FALSE
                          ELSE /\ AllNumbers(split_ascii_whitespace(lists.left))
                               /\ AllNumbers(split_ascii_whitespace(lists.right))

Solvers ==
    {"day1::solve_part_one", "day1::solve_part_two",
     "day2::solve_part_one", "day2::solve_part_two",
     "day4::solve_part_one", "day4::solve_part_two"}

\* Whether the body of the loop of the solver s comes to its end with the
\* line l, no `?` returning an error.
LineAccepted(s, l) ==
    CASE s = "day1::solve_part_one" -> extract_first_and_last_digits(l).ok
      [] s = "day1::solve_part_two" -> extract_first_and_last_digit_or_numeric_word(l).ok
      [] s \in {"day2::solve_part_one", "day2::solve_part_two"} -> parse_line(l).ok
      [] s = "day4::solve_part_one" -> card_line_part_one(l)
      [] s = "day4::solve_part_two" -> card_line_part_two(l)

\* ---- the lines

\* Most lines a loop reads.
MaxLinesRead == 2

DigitLines == {Concat(f) : f \in UNION {[1..n -> Pieces \ {<<NL>>}] : n \in 0..2}}

GameLines ==
    { word \o <<Space>> \o id \o <<":", Space>> \o cube.count \o cube.gap \o cube.color :
        word \in {GameWord, OtherWord}, id \in {<<"1">>, <<"x">>}, cube \in LineCubeKinds }

CardLines ==
    { word \o gap \o id \o colon \o <<Space, "1", Space>> \o bar \o <<Space>> \o have :
        word \in {CardWord, OtherWord}, gap \in Gaps, id \in {<<"1">>, <<"x">>},
        colon \in {<<>>, <<":">>}, bar \in {<<>>, <<"|">>}, have \in {<<"1">>, <<"x">>} }

LinesOf(s) ==
    CASE s \in {"day1::solve_part_one", "day1::solve_part_two"} -> DigitLines
      [] s \in {"day2::solve_part_one", "day2::solve_part_two"} -> GameLines
      [] s \in {"day4::solve_part_one", "day4::solve_part_two"} -> CardLines

\* ---- the grammar of a line, read off the line itself

StartsWith(l, word) == Len(l) >= Len(word) /\ SubSeq(l, 1, Len(word)) = word

After(l, word) == SubSeq(l, Len(word) + 1, Len(l))

\* count " " color
IsCube(t) ==
    LET pair == split_once(t, Space)
    IN  /\ pair.some
        /\ IsNumber(pair.left)
        /\ pair.right # <<>>
        /\ \A k \in 1..Len(pair.right) : pair.right[k] # Space

\* "Game " id ":" subset (";" subset)*, subset = count " " color ("," count " " color)*
IsGameLine(l) ==
    /\ StartsWith(l, GameWord \o <<Space>>)
    /\ LET rest == split_once(After(l, GameWord \o <<Space>>), ":")
       IN  /\ rest.some
           /\ IsNumber(trim(rest.left))
           /\ LET subsets == split(rest.right, ";")
              IN  \A s \in 1..Len(subsets) :
                     LET cubes == split(subsets[s], ",")
                     IN  \A c \in 1..Len(cubes) : IsCube(trim(cubes[c]))

\* "Card" ws id ":" number* "|" number*
IsCardLine(l) ==
    /\ StartsWith(l, CardWord \o <<Space>>)
    /\ LET rest == split_once(After(l, CardWord), ":")
       IN  /\ rest.some
           /\ IsNumber(trim_start(rest.left))
           /\ LET lists == split(rest.right, "|")
              IN  /\ Len(lists) = 2
                  /\ \A side \in 1..2 :
                        LET numbers == split_ascii_whitespace(lists[side])
                        IN  \A k \in 1..Len(numbers) : IsNumber(numbers[k])

OfTheGrammar(s, l) ==
    CASE s = "day1::solve_part_one" -> DigitPlaces(l) # {}
      [] s = "day1::solve_part_two" -> Occurrences(l) # {}
      [] s \in {"day2::solve_part_one", "day2::solve_part_two"} -> IsGameLine(l)
      [] s \in {"day4::solve_part_one", "day4::solve_part_two"} -> IsCardLine(l)

InitLines ==
    /\ solver \in Solvers
    /\ line_read = <<>>
    /\ checked = 0
    /\ slipped = FALSE
    /\ pc = "lines_loop"
    /\ answer = 0
    /\ Day3Idle
    /\ Day4Idle
    /\ Day2Idle
    /\ Day1Idle
    /\ ScanIdle

\* One turn of the loop over text.lines(): the line is taken to the end of
\* the body, or a `?` returns its error from the solver.
ReadLine ==
    /\ pc = "lines_loop"
    /\ checked < MaxLinesRead
    /\ \E l \in LinesOf(solver) :
          /\ line_read' = l
          /\ IF LineAccepted(solver, l)
             THEN /\ checked' = checked + 1
                  /\ slipped' = (slipped \/ ~OfTheGrammar(solver, l))
                  /\ pc' = "lines_loop"
             ELSE /\ pc' = "lines_error"
                  /\ UNCHANGED <<checked, slipped>>
    /\ UNCHANGED <<answer, solver, day3vars, day4vars, day2vars, day1vars, scanvars>>

\* The text has no further line: the solver returns Ok(total).
ReturnTotal ==
    /\ pc = "lines_loop"
    /\ pc' = "lines_total"
    /\ UNCHANGED <<answer, loopvars, day3vars, day4vars, day2vars, day1vars, scanvars>>

NextLines == ReadLine \/ ReturnTotal

SpecLines == InitLines /\ [][NextLines]_vars

\* ------------------------------------------------------------------ C17
\* C17: solve_part_one and solve_part_two of day1, day2 and day4 read the
\* lines in input order, and when a line is not of the grammar of the puzzle
\* the call returns an error for the first such line and never a total,
\* whatever the other lines are: no line that is not of the grammar is taken
\* to the end of the loop body.
C17_NoTotalAfterAMalformedLine == pc = "lines_total" => ~slipped

====
